---- MODULE Spec2Model ----
(***************************************************************************)
(* A model of smart-promise: the PromisePool scheduler (pool.ts) and the   *)
(* SmartPromise combinators built on it (index.ts).                        *)
(*                                                                         *)
(* JavaScript runs one job at a time.  Every action below is one such job  *)
(* run to completion: a call made by the user's code, the settlement of a  *)
(* task's underlying operation, a timer, or one job of the microtask       *)
(* queue (the continuation of an await, or a reaction of a promise).       *)
(***************************************************************************)
EXTENDS Integers, Sequences, FiniteSets

\* ---------------------------------------------------------------- bounds
MaxTasks == 3      \* admissions made on a directly constructed pool
MaxItems == 3      \* length of the input of all / allSettled / sequential
MaxLimit == 2      \* largest finite concurrency limit

\* ------------------------------------------------------------- the limit
\* `limit: number = Infinity`: a number, or Infinity.
Infinity == [inf |-> TRUE, n |-> 0]
Finite(k) == [inf |-> FALSE, n |-> k]
Limits == {Infinity} \cup {Finite(k) : k \in (-1)..MaxLimit}

\* The defaults the caller sets: those of the tests (index.spec.ts, lines 8
\* and 67).
DefaultLimits == {Infinity, Finite(1)}

\* A variant of LessThanLimit: the limit left out defaults to 0 instead of
\* Infinity.
LessThanLimitDefaultZero(a, lim) == a < lim.n

\* A variant of LessThanLimit: `a <= limit`.
LessThanLimitOrEqual(a, lim) == lim.inf \/ a <= lim.n

\* `a < limit`, with `a < Infinity` true of every number a.
LessThanLimit(a, lim) == lim.inf \/ a < lim.n

\* ----------------------------------------------------------------- tasks
\* What the caller passes: a task function, or an already-started promise
\* (wrapped as `() => promiseOrFn`).  A task function may throw when invoked
\* (throws), and may first call acquire on the same pool (child).  A promise
\* is pending, fulfilled or rejected when it is passed (pre).
FnTask(throws, child) ==
    [kind |-> "fn", throws |-> throws, child |-> child, pre |-> "none"]
PromiseItem(pre) ==
    [kind |-> "promise", throws |-> FALSE, child |-> "none", pre |-> pre]
PlainItems == {FnTask(t, "none") : t \in BOOLEAN}
                 \cup {PromiseItem(p) : p \in {"pending", "fulfilled", "rejected"}}
ChildTask(c) == FnTask(c = "throw", "none")
PoolTasks == PlainItems \cup {FnTask(t, c) : t \in BOOLEAN, c \in {"return", "throw"}}

\* The value a task fulfils with, or the error it rejects with or throws: an
\* opaque token, a different one for every task.
ValueOf(i) == i

Pending == [st |-> "pending", val |-> 0]
NotStarted == [st |-> "none", val |-> 0]
Settled(ok, v) == [st |-> IF ok THEN "fulfilled" ELSE "rejected", val |-> v]
IsSettled(p) == p.st \in {"fulfilled", "rejected"}

\* The promise a combinator returns: pending, fulfilled with a sequence, or
\* rejected with a reason.
PendingOut == [st |-> "pending", values |-> <<>>, reason |-> 0]
FulfilledOut(vs) == [st |-> "fulfilled", values |-> vs, reason |-> 0]
RejectedOut(r) == [st |-> "rejected", values |-> <<>>, reason |-> r]

VARIABLES
    mode,                \* which entry point the caller used
    defaultConcurrency,  \* SmartPromise.defaultConcurrency
    limit,               \* PromisePool.limit
    running,             \* PromisePool.running
    queue,               \* PromisePool.queue: the queued execute closures
    adm,                 \* the admissions: task, operation, result promise
    startOrder,          \* the order in which the task functions were invoked
    peak,                \* the largest number of tasks seen in flight at a start
    idleSlot,            \* an acquire call began with work queued under a free slot
    mq,                  \* the microtask queue
    out,                 \* the promise all / allSettled / sequential returned
    join,                \* Promise.all / Promise.allSettled: the elements so far
    callOptions,         \* the options all / allSettled was called with
    items,               \* sequential: the inputs and their operations
    loop                 \* sequential: i, results, delay and where the loop is

poolVars == <<limit, running, queue, adm, startOrder, peak, idleSlot>>
seqVars == <<items, loop>>
vars == <<mode, defaultConcurrency, limit, running, queue, adm, startOrder, peak,
          idleSlot, mq, out, join, callOptions, items, loop>>

Max(a, b) == IF a > b THEN a ELSE b

\* ------------------------------------------------------------- PromisePool
\* The pool and its surroundings as one value, for the synchronous call
\* chains acquire -> execute -> task body -> acquire / release -> execute.
Cur ==
    [join |-> mode \in {"all", "allSettled"}, limit |-> limit, running |-> running,
     queue |-> queue, adm |-> adm, startOrder |-> startOrder, peak |-> peak,
     idleSlot |-> idleSlot, mq |-> mq]

Commit(s) ==
    /\ limit' = s.limit
    /\ running' = s.running
    /\ queue' = s.queue
    /\ adm' = s.adm
    /\ startOrder' = s.startOrder
    /\ peak' = s.peak
    /\ idleSlot' = s.idleSlot
    /\ mq' = s.mq

\* The operation behind input i before its task is invoked: that of an
\* already-started promise exists, that of a task function does not yet.
InitialOp(task, i) ==
    IF task.kind = "fn" THEN NotStarted
    ELSE IF task.pre = "pending" THEN Pending
    ELSE Settled(task.pre = "fulfilled", ValueOf(i))

\* `new Promise<T>((resolve, reject) => ...)`: the admission acquire creates.
NewAdmission(task, i) ==
    [task |-> task, started |-> FALSE, writes |-> 0, future |-> Pending,
     op |-> InitialOp(task, i)]

\* The admissions whose task has been started and whose result is not yet
\* written.
InFlight(a) == {j \in 1..Len(a) : a[j].started /\ a[j].future.st = "pending"}

\* A variant of Outcome: the try block rejects and the catch block resolves.
OutcomeSwapped(op) ==
    [st |-> IF op.st = "fulfilled" THEN "rejected" ELSE "fulfilled", val |-> op.val]

\* `resolve(result)` / `reject(error)`: what the result promise is settled
\* with, given the outcome of `await task()`.
Outcome(op) == [st |-> op.st, val |-> op.val]

\* A variant of WriteResult: after resolve(result) control falls through to
\* reject(error), so the result promise is written twice.
WriteResultTwice(s, i) ==
    [s EXCEPT !.adm[i].future = IF @.st = "pending" THEN Outcome(s.adm[i].op) ELSE @,
              !.adm[i].writes = IF s.adm[i].op.st = "fulfilled" THEN @ + 2 ELSE @ + 1,
              !.mq = IF s.join THEN Append(@, [k |-> "react", i |-> i]) ELSE @]

\* Lines 18 and 20: settle the result promise of admission i; the promise's
\* reactions (the join of all / allSettled) become a microtask.
WriteResult(s, i) ==
    [s EXCEPT !.adm[i].future = IF @.st = "pending" THEN Outcome(s.adm[i].op) ELSE @,
              !.adm[i].writes = @ + 1,
              !.mq = IF s.join THEN Append(@, [k |-> "react", i |-> i]) ELSE @]

RECURSIVE Execute(_, _), AcquireIn(_, _), Release(_)

\* A variant of Release: `queue.pop()` in place of `queue.shift()`.
ReleaseLifo(s) ==
    LET s1 == [s EXCEPT !.running = @ - 1]
    IN  IF Len(s1.queue) > 0 /\ LessThanLimit(s1.running, s1.limit)
        THEN Execute([s1 EXCEPT !.queue = SubSeq(@, 1, Len(@) - 1)],
                     s1.queue[Len(s1.queue)])
        ELSE s1

\* A variant of Release: the slot is given back and the queue is left alone.
ReleaseNoDequeue(s) == [s EXCEPT !.running = @ - 1]

\* A variant of Release: once the combined result is rejected the pool is
\* aborted, and a release starts nothing more.
ReleaseUnlessRejected(s) ==
    LET s1 == [s EXCEPT !.running = @ - 1]
    IN  IF Len(s1.queue) > 0 /\ LessThanLimit(s1.running, s1.limit)
           /\ out.st # "rejected"
        THEN Execute([s1 EXCEPT !.queue = Tail(@)], Head(s1.queue))
        ELSE s1

\* A variant of Release: the test comes before the decrement.
ReleaseTestFirst(s) ==
    LET s1 == [s EXCEPT !.running = @ - 1]
    IN  IF Len(s.queue) > 0 /\ LessThanLimit(s.running, s.limit)
        THEN Execute([s1 EXCEPT !.queue = Tail(@)], Head(s1.queue))
        ELSE s1

\* release(): lines 34-42.
Release(s) ==
    LET s1 == [s EXCEPT !.running = @ - 1]
    IN  IF Len(s1.queue) > 0 /\ LessThanLimit(s1.running, s1.limit)
        THEN Execute([s1 EXCEPT !.queue = Tail(@)], Head(s1.queue))
        ELSE s1

\* A variant of Execute: task() is invoked before the try block, so what it
\* throws escapes execute: nothing is written and release() is not called.
ExecuteThrowEscapes(s, i) ==
    LET t  == s.adm[i].task
        s0 == [s EXCEPT !.running = @ + 1,
                        !.adm[i].started = TRUE,
                        !.startOrder = Append(@, i)]
        s1 == [s0 EXCEPT !.peak = Max(@, Cardinality(InFlight(s0.adm)))]
    IN  IF t.kind = "promise"
        THEN IF IsSettled(s1.adm[i].op)
             THEN [s1 EXCEPT !.mq = Append(@, [k |-> "cont", i |-> i])]
             ELSE s1
        ELSE LET s2 == IF t.child = "none" THEN s1
                       ELSE AcquireIn(s1, ChildTask(t.child))
             IN  IF t.throws
                 THEN [s2 EXCEPT !.adm[i].op = Settled(FALSE, ValueOf(i))]
                 ELSE [s2 EXCEPT !.adm[i].op = Pending]

\* A variant of Execute: `this.running++` comes after the call of task().
ExecuteLateIncrement(s, i) ==
    LET t  == s.adm[i].task
        s0 == [s EXCEPT !.adm[i].started = TRUE,
                        !.startOrder = Append(@, i)]
        s1 == [s0 EXCEPT !.peak = Max(@, Cardinality(InFlight(s0.adm)))]
    IN  IF t.kind = "promise"
        THEN IF IsSettled(s1.adm[i].op)
             THEN [s1 EXCEPT !.running = @ + 1,
                             !.mq = Append(@, [k |-> "cont", i |-> i])]
             ELSE [s1 EXCEPT !.running = @ + 1]
        ELSE LET s2 == IF t.child = "none" THEN s1
                       ELSE AcquireIn(s1, ChildTask(t.child))
                 s3 == [s2 EXCEPT !.running = @ + 1]
             IN  IF t.throws
                 THEN Release(WriteResult(
                          [s3 EXCEPT !.adm[i].op = Settled(FALSE, ValueOf(i))], i))
                 ELSE [s3 EXCEPT !.adm[i].op = Pending]

\* execute(): lines 14-24, up to the await, or to the end when the task
\* throws.
Execute(s, i) ==
    LET t  == s.adm[i].task
        s0 == [s EXCEPT !.running = @ + 1,
                        !.adm[i].started = TRUE,
                        !.startOrder = Append(@, i)]
        s1 == [s0 EXCEPT !.peak = Max(@, Cardinality(InFlight(s0.adm)))]
    IN  IF t.kind = "promise"
        THEN IF IsSettled(s1.adm[i].op)
             THEN [s1 EXCEPT !.mq = Append(@, [k |-> "cont", i |-> i])]
             ELSE s1
        ELSE LET s2 == IF t.child = "none" THEN s1
                       ELSE AcquireIn(s1, ChildTask(t.child))
             IN  IF t.throws
                 THEN Release(WriteResult(
                          [s2 EXCEPT !.adm[i].op = Settled(FALSE, ValueOf(i))], i))
                 ELSE [s2 EXCEPT !.adm[i].op = Pending]

\* The state an acquire call begins in has an admission queued while the
\* counter is not at the limit.
IdleSlotAt(s) == s.queue # <<>> /\ (s.limit.inf \/ s.running # s.limit.n)

\* A variant of AcquireIn: `running <= limit` in place of `running < limit`.
AcquireInOffByOne(s, task) ==
    LET i  == Len(s.adm) + 1
        s1 == [s EXCEPT !.adm = Append(@, NewAdmission(task, i)),
                        !.idleSlot = @ \/ IdleSlotAt(s)]
    IN  IF s1.limit.inf \/ s1.running <= s1.limit.n
        THEN Execute(s1, i)
        ELSE [s1 EXCEPT !.queue = Append(@, i)]

\* acquire(task): lines 12-32.
AcquireIn(s, task) ==
    LET i  == Len(s.adm) + 1
        s1 == [s EXCEPT !.adm = Append(@, NewAdmission(task, i)),
                        !.idleSlot = @ \/ IdleSlotAt(s)]
    IN  IF LessThanLimit(s1.running, s1.limit)
        THEN Execute(s1, i)
        ELSE [s1 EXCEPT !.queue = Append(@, i)]

\* A variant of Continue: release() at the end of the try block instead of in
\* a finally block, so a rejected task keeps its slot.
ContinueReleaseInTry(s, i) ==
    IF s.adm[i].op.st = "rejected" THEN WriteResult(s, i)
    ELSE Release(WriteResult(s, i))

\* A variant of Continue: release() both at the end of the try block and in
\* the finally block.
ContinueReleasesTwice(s, i) == Release(Release(WriteResult(s, i)))

\* The continuation of `await task()` once the operation has settled:
\* lines 17-23.
Continue(s, i) == Release(WriteResult(s, i))

\* The admissions a further acquire may still bring: the task and the child
\* its body admits.
Cost(task) == IF task.child = "none" THEN 1 ELSE 2
Reserved ==
    Len(adm) + Cardinality({j \in 1..Len(adm) :
                               ~adm[j].started /\ adm[j].task.child # "none"})

\* ---------------------------------------------------------------- actions
\* new PromisePool(limit)
NewPool(lim) ==
    /\ mode = "idle"
    /\ mode' = "pool"
    /\ limit' = lim
    /\ UNCHANGED <<defaultConcurrency, running, queue, adm, startOrder, peak, idleSlot, mq>>
    /\ UNCHANGED <<out, join, callOptions, seqVars>>

\* pool.acquire(task), called by the user's code.
Acquire(task) ==
    /\ mode = "pool"
    /\ Reserved + Cost(task) <= MaxTasks
    /\ Commit(AcquireIn(Cur, task))
    /\ UNCHANGED <<mode, defaultConcurrency, out, join, callOptions, seqVars>>

\* The operation behind admission i settles: the promise a started task
\* function returned, or an already-started promise.
TaskSettles(i, ok) ==
    /\ i \in 1..Len(adm)
    /\ adm[i].op.st = "pending"
    /\ adm' = [adm EXCEPT ![i].op = Settled(ok, ValueOf(i))]
    /\ mq' = IF adm[i].started THEN Append(mq, [k |-> "cont", i |-> i]) ELSE mq
    /\ UNCHANGED <<mode, defaultConcurrency, limit, running, queue, startOrder, peak, idleSlot>>
    /\ UNCHANGED <<out, join, callOptions, seqVars>>

\* The head of the microtask queue is the continuation of an execute().
RunContinuation ==
    /\ mq # <<>>
    /\ Head(mq).k = "cont"
    /\ Commit(Continue([Cur EXCEPT !.mq = Tail(@)], Head(mq).i))
    /\ UNCHANGED <<mode, defaultConcurrency, out, join, callOptions, seqVars>>

\* SmartPromise.setDefaultConcurrency(limit)
SetDefaultConcurrency(lim) ==
    /\ defaultConcurrency' = lim
    /\ UNCHANGED <<mode, poolVars, mq, out, join, callOptions, seqVars>>


\* ------------------------------------------------------------ SmartPromise
\* The options of a call: `concurrency` is given or left undefined.
NoConcurrency == [given |-> FALSE, concurrency |-> Infinity]
Concurrency(lim) == [given |-> TRUE, concurrency |-> lim]
Options == {NoConcurrency} \cup {Concurrency(lim) : lim \in Limits}

\* The inputs of a combinator: up to MaxItems promises and task functions.
Inputs == UNION {[1..n -> PlainItems] : n \in 0..MaxItems}

RECURSIVE AcquireAll(_, _)
\* `values.map(... pool.acquire(task))`: lines 106-110.
AcquireAll(s, values) ==
    IF values = <<>> THEN s
    ELSE AcquireAll(AcquireIn(s, Head(values)), Tail(values))

\* A variant of CreatePooledTasks: the operands of ?? are exchanged, so the
\* default, which is never undefined, always wins.
CreatePooledTasksDefaultFirst(values, options) ==
    LET pool == [join |-> TRUE, limit |-> defaultConcurrency, running |-> 0,
                 queue |-> <<>>, adm |-> <<>>, startOrder |-> <<>>, peak |-> 0, idleSlot |-> FALSE,
                 mq |-> mq]
    IN  AcquireAll(pool, values)

\* createPooledTasks(values, options): lines 99-111.
CreatePooledTasks(values, options) ==
    LET concurrency == IF options.given THEN options.concurrency
                       ELSE defaultConcurrency
        pool == [join |-> TRUE, limit |-> concurrency, running |-> 0, queue |-> <<>>,
                 adm |-> <<>>, startOrder |-> <<>>, peak |-> 0, idleSlot |-> FALSE, mq |-> mq]
    IN  AcquireAll(pool, values)

\* An element of the join that is not filled in yet.
NoElement == [status |-> "none", value |-> 0]
Element(p) == [status |-> p.st, value |-> p.val]
Filled(got) == \A j \in 1..Len(got) : got[j].status # "none"

\* Promise.all / Promise.allSettled over n promises, before any has settled.
NewJoin(n) == [got |-> [j \in 1..n |-> NoElement], seen |-> <<>>]

\* A variant of AllReaction: the values are collected as the promises
\* settle, in the order of completion.
AllReactionCompletionOrder(o, j, p) ==
    IF o.st # "pending" THEN o
    ELSE IF p.st = "rejected" THEN RejectedOut(p.val)
    ELSE IF Filled(j.got)
         THEN FulfilledOut([k \in 1..Len(j.seen) |-> j.got[j.seen[k]].value])
    ELSE o

\* A variant of AllReaction: a rejection is swallowed instead of rejecting
\* the joined promise.
AllReactionSwallows(o, j, p) ==
    IF o.st = "pending" /\ p.st = "fulfilled" /\ Filled(j.got)
    THEN FulfilledOut([k \in 1..Len(j.got) |-> j.got[k].value])
    ELSE o

\* Promise.all(tasks), line 30: the reaction to the settlement p of one of
\* the promises, j being the elements so far.  A rejection rejects the
\* joined promise; the last fulfilment fulfils it with the values in the
\* order of the promises.
AllReaction(o, j, p) ==
    IF o.st # "pending" THEN o
    ELSE IF p.st = "rejected" THEN RejectedOut(p.val)
    ELSE IF Filled(j.got) THEN FulfilledOut([k \in 1..Len(j.got) |-> j.got[k].value])
    ELSE o

\* A variant of AllSettledReaction: Promise.all in place of
\* Promise.allSettled, so a rejection rejects the joined promise.
AllSettledReactionFailFast(o, j, p) ==
    IF o.st # "pending" THEN o
    ELSE IF p.st = "rejected" THEN RejectedOut(p.val)
    ELSE IF Filled(j.got) THEN FulfilledOut(j.got)
    ELSE o

\* Promise.allSettled(tasks), line 46: the reaction to the settlement of
\* one of the promises.  The last settlement fulfils the joined promise
\* with the outcomes in the order of the promises.
AllSettledReaction(o, j, p) ==
    IF o.st = "pending" /\ Filled(j.got) THEN FulfilledOut(j.got) ELSE o

\* SmartPromise.all(values, options)
All(values, options) ==
    /\ mode = "idle"
    /\ mode' = "all"
    /\ callOptions' = options
    /\ Commit(CreatePooledTasks(values, options))
    /\ join' = NewJoin(Len(values))
    /\ out' = IF values = <<>> THEN FulfilledOut(<<>>) ELSE PendingOut
    /\ UNCHANGED <<defaultConcurrency, seqVars>>

\* SmartPromise.allSettled(values, options)
AllSettled(values, options) ==
    /\ mode = "idle"
    /\ mode' = "allSettled"
    /\ callOptions' = options
    /\ Commit(CreatePooledTasks(values, options))
    /\ join' = NewJoin(Len(values))
    /\ out' = IF values = <<>> THEN FulfilledOut(<<>>) ELSE PendingOut
    /\ UNCHANGED <<defaultConcurrency, seqVars>>

\* The head of the microtask queue is the reaction of the join to the
\* settlement of the promise acquire returned for admission i.
RunReaction ==
    /\ mq # <<>>
    /\ Head(mq).k = "react"
    /\ LET i   == Head(mq).i
           p   == adm[i].future
           got == IF mode = "all" /\ p.st = "rejected" THEN join.got
                  ELSE [join.got EXCEPT ![i] = Element(p)]
           j   == [got |-> got, seen |-> Append(join.seen, i)]
       IN  /\ join' = j
           /\ out' = IF mode = "all" THEN AllReaction(out, j, p)
                     ELSE AllSettledReaction(out, j, p)
    /\ mq' = Tail(mq)
    /\ UNCHANGED <<mode, defaultConcurrency, poolVars, callOptions, seqVars>>

\* ---------------------------------------------------- SmartPromise.sequential
\* The delays a caller passes: none, or some milliseconds.
Delays == {0, 50}

\* The loop of sequential and its surroundings as one value.
CurSeq == [items |-> items, loop |-> loop, out |-> out, mq |-> mq]

CommitSeq(q) ==
    /\ items' = q.items
    /\ loop' = q.loop
    /\ out' = q.out
    /\ mq' = q.mq

\* A variant of Iterate: the loop test is `i <= values.length`, so that after
\* the last input the loop calls an undefined task, which throws.
IterateOnePastEnd(q, i) ==
    IF i > Len(q.items)
    THEN [q EXCEPT !.loop.i = i, !.loop.pc = "done", !.out = RejectedOut(0)]
    ELSE LET t  == q.items[i].task
             q1 == [q EXCEPT !.loop.i = i,
                             !.loop.invoked = Append(@, i),
                             !.items[i].started = TRUE]
         IN  IF t.kind = "fn" /\ t.throws
             THEN [q1 EXCEPT !.items[i].op = Settled(FALSE, ValueOf(i)),
                             !.loop.pc = "done",
                             !.out = RejectedOut(ValueOf(i))]
             ELSE IF t.kind = "fn"
             THEN [q1 EXCEPT !.items[i].op = Pending, !.loop.pc = "await"]
             ELSE [q1 EXCEPT !.loop.pc = "await",
                             !.mq = IF IsSettled(q.items[i].op)
                                    THEN Append(@, [k |-> "seqcont", i |-> i])
                                    ELSE @]

\* A variant of Iterate: `task()` without the await, so the loop goes on to
\* input i + 1 while the task of input i is still running.
IterateNoAwait(q, i) ==
    IF i > Len(q.items)
    THEN [q EXCEPT !.loop.i = i, !.loop.pc = "done",
                   !.out = FulfilledOut(q.loop.results)]
    ELSE LET next == IF i < Len(q.items) THEN {i, i + 1} ELSE {i}
         IN  [q EXCEPT !.loop.i = i,
                       !.loop.pc = "await",
                       !.loop.invoked = IF i < Len(q.items) THEN @ \o <<i, i + 1>>
                                        ELSE Append(@, i),
                       !.items = [j \in 1..Len(@) |->
                                     IF j \in next
                                     THEN [@[j] EXCEPT !.started = TRUE,
                                                       !.op = IF @.st = "none"
                                                              THEN Pending ELSE @]
                                     ELSE @[j]]]

\* Lines 82-87: the loop test and iteration i up to its await; line 96 when
\* the loop is over.  An exception of task() rejects the returned promise.
Iterate(q, i) ==
    IF i > Len(q.items)
    THEN [q EXCEPT !.loop.i = i, !.loop.pc = "done",
                   !.out = FulfilledOut(q.loop.results)]
    ELSE LET t  == q.items[i].task
             q1 == [q EXCEPT !.loop.i = i,
                             !.loop.invoked = Append(@, i),
                             !.items[i].started = TRUE]
         IN  IF t.kind = "fn" /\ t.throws
             THEN [q1 EXCEPT !.items[i].op = Settled(FALSE, ValueOf(i)),
                             !.loop.pc = "done",
                             !.out = RejectedOut(ValueOf(i))]
             ELSE IF t.kind = "fn"
             THEN [q1 EXCEPT !.items[i].op = Pending, !.loop.pc = "await"]
             ELSE [q1 EXCEPT !.loop.pc = "await",
                             !.mq = IF IsSettled(q.items[i].op)
                                    THEN Append(@, [k |-> "seqcont", i |-> i])
                                    ELSE @]

\* A variant of Resume: the rejection is caught and the loop goes on.
ResumeCatches(q) ==
    LET i  == q.loop.i
        q1 == [q EXCEPT !.loop.results = Append(@, q.items[i].op.val)]
    IN  IF q.loop.delay > 0 /\ i < Len(q.items)
        THEN [q1 EXCEPT !.loop.pc = "delay"]
        ELSE Iterate(q1, i + 1)

\* Lines 87-93: the continuation of `await task()`.  A rejection is thrown
\* and rejects the returned promise; a value is pushed, and the loop sleeps
\* or goes on to the next iteration.
Resume(q) ==
    LET i  == q.loop.i
        op == q.items[i].op
    IN  IF op.st = "rejected"
        THEN [q EXCEPT !.loop.pc = "done", !.out = RejectedOut(op.val)]
        ELSE LET q1 == [q EXCEPT !.loop.results = Append(@, op.val)]
             IN  IF q.loop.delay > 0 /\ i < Len(q.items)
                 THEN [q1 EXCEPT !.loop.pc = "delay"]
                 ELSE Iterate(q1, i + 1)

\* SmartPromise.sequential(values, {delay})
Sequential(values, delay) ==
    /\ mode = "idle"
    /\ mode' = "sequential"
    /\ CommitSeq(Iterate(
           [CurSeq EXCEPT !.items = [j \in 1..Len(values) |->
                                        [task |-> values[j], started |-> FALSE,
                                         op |-> InitialOp(values[j], j)]],
                          !.loop.delay = delay], 1))
    /\ UNCHANGED <<defaultConcurrency, poolVars, callOptions, join>>

\* The operation behind input i settles.
ItemSettles(i, ok) ==
    /\ i \in 1..Len(items)
    /\ items[i].op.st = "pending"
    /\ items' = [items EXCEPT ![i].op = Settled(ok, ValueOf(i))]
    /\ mq' = IF loop.pc = "await" /\ loop.i = i
             THEN Append(mq, [k |-> "seqcont", i |-> i]) ELSE mq
    /\ UNCHANGED <<mode, defaultConcurrency, poolVars, callOptions, out, join, loop>>

\* The head of the microtask queue is the continuation of the loop's
\* `await task()`.
RunSeqContinuation ==
    /\ mq # <<>>
    /\ Head(mq).k = "seqcont"
    /\ CommitSeq(Resume([CurSeq EXCEPT !.mq = Tail(@)]))
    /\ UNCHANGED <<mode, defaultConcurrency, poolVars, callOptions, join>>

\* The timer of line 92 fires: the loop goes on to the next iteration.
TimerFires ==
    /\ loop.pc = "delay"
    /\ CommitSeq(Iterate(CurSeq, loop.i + 1))
    /\ UNCHANGED <<mode, defaultConcurrency, poolVars, callOptions, join>>

Init ==
    /\ mode = "idle"
    /\ defaultConcurrency = Infinity
    /\ limit = Infinity
    /\ running = 0
    /\ queue = <<>>
    /\ adm = <<>>
    /\ startOrder = <<>>
    /\ peak = 0
    /\ idleSlot = FALSE
    /\ mq = <<>>
    /\ out = PendingOut
    /\ join = [got |-> <<>>, seen |-> <<>>]
    /\ callOptions = NoConcurrency
    /\ items = <<>>
    /\ loop = [i |-> 0, results |-> <<>>, delay |-> 0, pc |-> "none", invoked |-> <<>>]

\* A pool constructed by the caller, and the caller's acquire calls.
NextPool ==
    \/ \E lim \in Limits : NewPool(lim)
    \/ \E task \in PoolTasks : Acquire(task)
    \/ \E i \in 1..MaxTasks, ok \in BOOLEAN : TaskSettles(i, ok)
    \/ RunContinuation

SpecPool == Init /\ [][NextPool]_vars

\* The operation behind a started task settles in the end (what the caller
\* promises), and the microtask queue is run (what the event loop does).
StartedTaskSettles(i) ==
    \E ok \in BOOLEAN : i \in 1..Len(adm) /\ adm[i].started /\ TaskSettles(i, ok)
\* What every run of RunContinuation does to the microtask queue, and no
\* other step of a pool does: the head is taken off, and the continuation of
\* a queued promise that the release starts may be put at the end.
MicrotaskRuns ==
    /\ mq # <<>>
    /\ Head(mq).k = "cont"
    /\ \E suffix \in {<<>>} \cup {<<[k |-> "cont", i |-> queue[n]]>> : n \in 1..Len(queue)} :
          mq' = Tail(mq) \o suffix
FairPool ==
    /\ WF_mq(MicrotaskRuns)
    /\ \A i \in 1..MaxTasks : WF_vars(StartedTaskSettles(i))
SpecPoolFair == Init /\ [][NextPool]_vars /\ FairPool

\* In a pool by itself, a step does to the microtask queue what MicrotaskRuns
\* says exactly when it is a step of RunContinuation.
MicrotaskRunsIsRunContinuation ==
    [][(MicrotaskRuns /\ mq' # mq) <=> RunContinuation]_vars

\* One call of all or allSettled, the default being set before the call.
NextJoin ==
    \/ mode = "idle" /\ \E lim \in DefaultLimits : SetDefaultConcurrency(lim)
    \/ mode = "idle" /\ \E values \in Inputs, options \in Options : All(values, options)
    \/ mode = "idle" /\ \E values \in Inputs, options \in Options :
                           AllSettled(values, options)
    \/ \E i \in 1..MaxItems, ok \in BOOLEAN : TaskSettles(i, ok)
    \/ RunContinuation
    \/ RunReaction

SpecJoin == Init /\ [][NextJoin]_vars

\* One call of sequential.
NextSeq ==
    \/ mode = "idle" /\ \E values \in Inputs, delay \in Delays :
                           Sequential(values, delay)
    \/ \E i \in 1..MaxItems, ok \in BOOLEAN : ItemSettles(i, ok)
    \/ RunSeqContinuation
    \/ TimerFires

SpecSeq == Init /\ [][NextSeq]_vars

\* The inputs that are task functions only.
FnInputs == UNION {[1..n -> {FnTask(t, "none") : t \in BOOLEAN}] : n \in 0..MaxItems}

\* One call of all or allSettled over task functions, the default being set
\* at any time, also while the call is running.
NextDefault ==
    \/ \E lim \in Limits : SetDefaultConcurrency(lim)
    \/ mode = "idle" /\ \E values \in FnInputs, options \in Options :
                           All(values, options)
    \/ mode = "idle" /\ \E values \in FnInputs, options \in Options :
                           AllSettled(values, options)
    \/ \E i \in 1..MaxItems, ok \in BOOLEAN : TaskSettles(i, ok)
    \/ RunContinuation
    \/ RunReaction

SpecDefault == Init /\ [][NextDefault]_vars

\* One call of any of the three combinators.
NextCombinators == NextJoin \/ NextSeq

SpecCombinators == Init /\ [][NextCombinators]_vars

\* ------------------------------------------------------------------ claims
FiniteLimit == ~limit.inf /\ limit.n >= 1
Admissions == 1..Len(adm)
InQueue(i) == \E k \in 1..Len(queue) : queue[k] = i
ContinuationPending(i) == \E k \in 1..Len(mq) : mq[k] = [k |-> "cont", i |-> i]

\* C1: with an integer limit L >= 1, the number of admissions started and
\* not yet settled never exceeds L, neither between two jobs nor at any
\* start of a task inside a job (peak).
C1_RunningWithinLimit ==
    FiniteLimit => /\ Cardinality(InFlight(adm)) <= limit.n
                   /\ peak <= limit.n

\* Two tasks are in flight under limit 2 while a third one waits.
C1_Witness ==
    /\ limit = Finite(2)
    /\ Cardinality(InFlight(adm)) = 2
    /\ peak = 2
    /\ queue # <<>>

\* C2: tasks are invoked in the order of their admission: the k-th task
\* invoked is the k-th admitted, whatever the order of the settlements.
C2_StartOrderIsAdmissionOrder ==
    \A k \in 1..Len(startOrder) : startOrder[k] = k

\* Under limit 2 the second task settles before the first, and the third,
\* which was queued, is started next.
C2_Witness ==
    /\ limit = Finite(2)
    /\ startOrder = <<1, 2, 3>>
    /\ adm[1].future.st = "pending"
    /\ IsSettled(adm[2].future)
    /\ ~adm[3].task.throws

\* C3: a settled result promise carries its own task's outcome: the same
\* status and the same value or error.
C3_FutureIsTaskOutcome ==
    \A i \in Admissions :
        IsSettled(adm[i].future) =>
            /\ adm[i].future.st = adm[i].op.st
            /\ adm[i].future.val = ValueOf(i)
            /\ adm[i].op.val = ValueOf(i)

\* One task has fulfilled, one has rejected and one has thrown.
C3_Witness ==
    /\ Len(adm) = 3
    /\ \E i, j, k \in Admissions :
          /\ adm[i].future = Settled(TRUE, ValueOf(i))
          /\ adm[j].future = Settled(FALSE, ValueOf(j)) /\ ~adm[j].task.throws
          /\ adm[k].future = Settled(FALSE, ValueOf(k)) /\ adm[k].task.throws

\* C4: the result promise of an admission is written at most once, not
\* before its task was started and settled, and exactly once when the
\* continuation of a started and settled task has run.
C4_WrittenExactlyOnce ==
    \A i \in Admissions :
        /\ adm[i].writes <= 1
        /\ adm[i].writes = 0 <=> adm[i].future.st = "pending"
        /\ adm[i].writes > 0 => adm[i].started /\ IsSettled(adm[i].op)
        /\ InQueue(i) => adm[i].writes = 0 /\ ~adm[i].started
        /\ (adm[i].started /\ IsSettled(adm[i].op) /\ ~ContinuationPending(i))
              => adm[i].writes = 1

\* A fulfilled task's promise is written while an already settled promise
\* still waits in the queue with its result unwritten.
C4_Witness ==
    \E i, j \in Admissions :
        /\ adm[i].writes = 1 /\ adm[i].future.st = "fulfilled"
        /\ InQueue(j) /\ IsSettled(adm[j].op) /\ adm[j].future.st = "pending"

\* Admission i fails in a step: its result promise becomes rejected.
FailsIn(i, a, b) ==
    /\ b[i].future.st = "rejected"
    /\ i <= Len(a) => a[i].future.st = "pending"
Member(q, j) == \E k \in 1..Len(q) : q[k] = j
\* q2 is q1 without its first d elements, followed by later admissions.
QueueAdvanced(q1, q2, d) ==
    /\ Len(q2) >= Len(q1) - d
    /\ \A k \in 1..(Len(q1) - d) : q2[k] = q1[k + d]
\* What the continuation of admission i brings about, with the outcome the
\* task has (ok = FALSE, a rejection) and had the task fulfilled instead.
AfterSettlement(i, ok) ==
    Continue([Cur EXCEPT !.mq = Tail(@),
                         !.adm[i].op = IF ok THEN Settled(TRUE, ValueOf(i)) ELSE @], i)

\* C5: a failure is isolated.  In a step in which admission i rejects or
\* throws: its slot is given back (the counter is again the number of tasks
\* in flight); every other started admission is left as it was, unless its
\* own task settles in the same step, and then it gets its own outcome; the
\* queue keeps its order, and an admission that leaves it is started; and
\* everything but i's own result is as if the task had fulfilled.
C5_FailureIsolated ==
    [][\A i \in 1..Len(adm') : FailsIn(i, adm, adm') =>
          /\ running' = Cardinality(InFlight(adm'))
          /\ \A j \in Admissions \ {i} : adm[j].started =>
                \/ adm'[j] = adm[j]
                \/ /\ adm[j].future.st = "pending"
                   /\ adm'[j] = [adm[j] EXCEPT !.writes = 1,
                                               !.future = [st |-> adm[j].op.st,
                                                           val |-> ValueOf(j)]]
          /\ \E d \in 0..Len(queue) :
                /\ QueueAdvanced(queue, queue', d)
                /\ \A k \in 1..d : adm'[queue[k]].started
          /\ \A j \in Admissions : Member(queue, j) /\ Member(queue', j) =>
                adm'[j] = adm[j]
          /\ (i <= Len(adm) /\ ~adm[i].task.throws) =>
                LET rej == AfterSettlement(i, FALSE)
                    ful == AfterSettlement(i, TRUE)
                IN  /\ rej.running = ful.running
                    /\ rej.queue = ful.queue
                    /\ rej.startOrder = ful.startOrder
                    /\ rej.mq = ful.mq
                    /\ \A j \in 1..Len(rej.adm) : j # i => rej.adm[j] = ful.adm[j]
                    /\ rej.adm[i].future.st = "rejected"
                    /\ running' = rej.running /\ queue' = rej.queue
      ]_vars

\* Under limit 2 the first task has rejected; the second is still running,
\* and the third, which was queued, was started and has fulfilled since.
C5_Witness ==
    /\ limit = Finite(2)
    /\ startOrder = <<1, 2, 3>>
    /\ adm[1].future = Settled(FALSE, ValueOf(1)) /\ ~adm[1].task.throws
    /\ adm[2].started /\ adm[2].future.st = "pending"
    /\ adm[3].future = Settled(TRUE, ValueOf(3))
    /\ running = 1

\* The reactions of the join that have run, in order, and those among them
\* that were reactions to a rejection.
Seen == join.seen
SeenRejections == {k \in 1..Len(Seen) : adm[Seen[k]].future.st = "rejected"}
FirstRejection == Seen[CHOOSE k \in SeenRejections : \A m \in SeenRejections : k <= m]
AllSeen == Len(Seen) = Len(adm)

\* C6: when SmartPromise.all fulfils, its result has one element per input,
\* element i being the value of input i, and every input has fulfilled;
\* and it has fulfilled once every input has fulfilled and been observed.
C6_AllKeepsInputOrder ==
    mode = "all" =>
        /\ out.st = "fulfilled" =>
              /\ Len(out.values) = Len(adm)
              /\ \A i \in Admissions :
                    adm[i].op.st = "fulfilled" /\ out.values[i] = ValueOf(i)
        /\ (AllSeen /\ \A i \in Admissions : adm[i].op.st = "fulfilled")
              => out.st = "fulfilled"

\* all fulfils over a promise and two task functions under limit 2, the
\* tasks having completed in another order than that of the input.
C6_Witness ==
    /\ mode = "all"
    /\ limit = Finite(2)
    /\ out = FulfilledOut(<<ValueOf(1), ValueOf(2), ValueOf(3)>>)
    /\ Seen = <<2, 1, 3>>
    /\ \E i, k \in Admissions : adm[i].task.kind = "promise" /\ adm[k].task.kind = "fn"

\* C7: SmartPromise.all is rejected exactly when it has observed a rejection
\* of one of its pooled promises, with the reason of the first one observed,
\* whatever is still running or queued; and it never fulfils when some task
\* has rejected.
C7_AllRejectsWithFirstRejection ==
    mode = "all" =>
        /\ SeenRejections # {} => out = RejectedOut(ValueOf(FirstRejection))
        /\ SeenRejections = {} => out.st # "rejected"
        /\ out.st = "fulfilled" => \A i \in Admissions : adm[i].op.st # "rejected"

\* all is rejected with the second task's error, after the first task has
\* fulfilled, while the third task is still running.
C7_Witness ==
    /\ mode = "all"
    /\ limit = Finite(2)
    /\ Len(adm) = 3
    /\ Seen = <<1, 2>>
    /\ adm[1].future.st = "fulfilled"
    /\ out = RejectedOut(ValueOf(2))
    /\ adm[3].started /\ adm[3].op.st = "pending"

\* C8: SmartPromise.allSettled never rejects; when it fulfils every input
\* has settled and element i of the result is the outcome of input i; and it
\* has fulfilled once every input's outcome has been observed.
C8_AllSettledReportsEveryOutcome ==
    mode = "allSettled" =>
        /\ out.st # "rejected"
        /\ out.st = "fulfilled" =>
              /\ Len(out.values) = Len(adm)
              /\ \A i \in Admissions :
                    /\ IsSettled(adm[i].op)
                    /\ out.values[i] = [status |-> adm[i].op.st, value |-> ValueOf(i)]
        /\ (AllSeen /\ adm # <<>>) => out.st = "fulfilled"
        /\ (out.st = "fulfilled" /\ adm # <<>>) => AllSeen

\* allSettled fulfils under limit 2 over a task that throws, a task that
\* fulfils and a task that rejects, the last two completing out of order.
C8_Witness ==
    /\ mode = "allSettled"
    /\ limit = Finite(2)
    /\ Len(adm) = 3
    /\ out.st = "fulfilled"
    /\ adm[1].task.throws
    /\ out.values = <<[status |-> "rejected", value |-> ValueOf(1)],
                      [status |-> "fulfilled", value |-> ValueOf(2)],
                      [status |-> "rejected", value |-> ValueOf(3)]>>
    /\ Seen = <<1, 3, 2>>

\* The inputs of sequential, those that are task functions, and the task
\* functions that are running.
Items == 1..Len(items)
Invoked(i) == Member(loop.invoked, i)
SeqInFlight ==
    {i \in Items : items[i].task.kind = "fn" /\ items[i].started
                      /\ items[i].op.st = "pending"}
SeqContinuationPending == \E k \in 1..Len(mq) : mq[k].k = "seqcont"

\* C9: sequential invokes its tasks in input order, each once, the next
\* only when all the earlier ones have settled, so at most one task function
\* is running; and when it fulfils, element i of the result is the value of
\* input i.
C9_SequentialOneAtATime ==
    mode = "sequential" =>
        /\ \A k \in 1..Len(loop.invoked) : loop.invoked[k] = k
        /\ \A i \in Items : items[i].task.kind = "fn" =>
              (items[i].started <=> Invoked(i))
        /\ \A i \in Items : Invoked(i) =>
              \A j \in 1..(i - 1) : items[j].op.st = "fulfilled"
        /\ Cardinality(SeqInFlight) <= 1
        /\ out.st = "fulfilled" =>
              /\ Len(out.values) = Len(items)
              /\ \A i \in Items : Invoked(i) /\ out.values[i] = ValueOf(i)

\* sequential has fulfilled over three task functions, run without a delay.
C9_Witness ==
    /\ mode = "sequential"
    /\ loop.delay = 0
    /\ Len(items) = 3
    /\ \A i \in Items : items[i].task.kind = "fn"
    /\ out = FulfilledOut(<<ValueOf(1), ValueOf(2), ValueOf(3)>>)

\* Input i has failed for the loop: its task threw, or the loop's await of
\* it has seen the rejection.
SeqFailed(i) ==
    /\ Invoked(i)
    /\ items[i].op.st = "rejected"
    /\ i = loop.i => ~SeqContinuationPending

\* C10: once task i of sequential has rejected or thrown, the returned
\* promise is rejected with that task's error, the loop is over without a
\* further delay, and no input after i is invoked, then or later.
C10_SequentialStopsAtFailure ==
    [][/\ \A i \in 1..Len(items') : SeqFailed(i)' =>
             /\ out' = RejectedOut(ValueOf(i))
             /\ loop'.pc = "done"
             /\ loop'.invoked = [k \in 1..i |-> k]
             /\ \A j \in (i + 1)..Len(items') :
                   items'[j].task.kind = "fn" => ~items'[j].started
       /\ out.st = "rejected" => loop' = loop /\ out' = out
       /\ out'.st = "rejected" => \E i \in 1..Len(items') : SeqFailed(i)'
      ]_vars

\* The second of three tasks has rejected after a delay was taken; the third
\* was not invoked.
C10_Witness ==
    /\ mode = "sequential"
    /\ loop.delay > 0
    /\ Len(items) = 3
    /\ \A i \in Items : items[i].task.kind = "fn"
    /\ items[2].op.st = "rejected" /\ ~items[2].task.throws
    /\ out = RejectedOut(ValueOf(2))
    /\ loop.invoked = <<1, 2>>

\* C11: in a pool without a limit every admitted task has been invoked when
\* its acquire call returns, nothing is ever queued, and the counter is the
\* number of admissions less those that have settled: N after N admissions
\* with no settlement.
C11_UnboundedNeverQueues ==
    (mode = "pool" /\ limit.inf) =>
        /\ queue = <<>>
        /\ \A i \in Admissions : adm[i].started
        /\ startOrder = [k \in 1..Len(adm) |-> k]
        /\ running = Len(adm) - Cardinality({i \in Admissions : adm[i].writes > 0})
        /\ (\A i \in Admissions : adm[i].writes = 0) => running = Len(adm)

\* Three tasks were admitted to a pool without a limit and none has settled:
\* three are running.
C11_Witness ==
    /\ mode = "pool"
    /\ limit = Infinity
    /\ Len(adm) = 3
    /\ \A i \in Admissions : adm[i].task.kind = "fn" /\ adm[i].op.st = "pending"
    /\ running = 3

\* C12: a combinator called with no input has fulfilled with the empty
\* sequence when the call returns, and has admitted and invoked nothing: the
\* pool's counter and queue are as they were, and no job is pending.
C12_EmptyInputFulfilsAtOnce ==
    /\ (mode \in {"all", "allSettled"} /\ join.got = <<>>) =>
          /\ out = FulfilledOut(<<>>)
          /\ adm = <<>> /\ startOrder = <<>>
          /\ running = 0 /\ queue = <<>> /\ peak = 0
          /\ mq = <<>>
    /\ (mode = "sequential" /\ items = <<>>) =>
          /\ out = FulfilledOut(<<>>)
          /\ loop.invoked = <<>> /\ loop.pc = "done"
          /\ mq = <<>>
    /\ mode = "sequential" => adm = <<>> /\ running = 0 /\ queue = <<>>

\* all was called with no input and an explicit concurrency, as in the test.
C12_Witness ==
    /\ mode = "all"
    /\ limit = Finite(2)
    /\ join.got = <<>>
    /\ out = FulfilledOut(<<>>)

\* C13: the default concurrency is Infinity at first; a call of all or
\* allSettled constructs its pool with the explicit concurrency when one is
\* given and with the default otherwise; the limit of a constructed pool
\* never changes; and setting the default changes nothing else.
C13_DefaultConcurrency ==
    /\ defaultConcurrency = Infinity
    /\ [][/\ (mode = "idle" /\ mode' \in {"all", "allSettled"}) =>
                limit' = IF callOptions'.given THEN callOptions'.concurrency
                         ELSE defaultConcurrency
          /\ mode # "idle" => limit' = limit
          /\ defaultConcurrency' # defaultConcurrency =>
                UNCHANGED <<mode, limit, running, queue, adm, startOrder, mq, out, join>>
         ]_vars

\* all was called without a concurrency while the default was 1; the default
\* is 2 by now, and the pool still runs one task at a time.
C13_Witness ==
    /\ mode = "all"
    /\ ~callOptions.given
    /\ defaultConcurrency = Finite(2)
    /\ limit = Finite(1)
    /\ running = 1
    /\ queue # <<>>
    /\ Len(startOrder) = 2

\* Admission i is started in a step and its task function throws when invoked.
ThrewInStep(i) ==
    /\ adm'[i].started
    /\ i <= Len(adm) => ~adm[i].started
    /\ adm'[i].task.kind = "fn" /\ adm'[i].task.throws
\* A step of acquire called with a task function.
AcquireFnStep == Len(adm') > Len(adm) /\ mq' = mq

\* C14: a task function that throws when invoked is a failed task.  In the
\* step that starts it, the admission is made and its result promise is
\* rejected with what was thrown, written once; its slot is given back: the
\* counter is the number of tasks in flight, and when acquire started it the
\* counter is what it was, but for a child the body admitted and started, and
\* the queue is what it was; when it was started from the queue, the
\* admission queued behind it is started in the same step; and no admission
\* is left queued under a free slot.
C14_SyncThrowIsTaskFailure ==
    [][\A i \in 1..Len(adm') : ThrewInStep(i) =>
          /\ adm'[i].future = Settled(FALSE, ValueOf(i))
          /\ adm'[i].writes = 1
          /\ i \notin InFlight(adm')
          /\ running' = Cardinality(InFlight(adm'))
          /\ (AcquireFnStep /\ i = Len(adm) + 1) =>
                /\ queue' = queue
                /\ running' = running
                      + Cardinality({j \in (Len(adm) + 1)..Len(adm') :
                                        j \in InFlight(adm')})
                /\ adm'[i].task.child = "none" => running' = running
          /\ \A k \in 1..(Len(queue) - 1) :
                queue[k] = i => adm'[queue[k + 1]].started
          /\ queue' # <<>> => ~LessThanLimit(running', limit')
      ]_vars

\* Under limit 1 the first task admitted a child that throws, which was
\* queued; the first task has fulfilled, the child was started and threw,
\* its result is rejected, and the admission behind it runs in its slot.
C14_Witness ==
    /\ mode = "pool" /\ limit = Finite(1)
    /\ startOrder = <<1, 2, 3>>
    /\ adm[1].task.child = "throw" /\ adm[1].future.st = "fulfilled"
    /\ adm[2].task.throws /\ adm[2].future = Settled(FALSE, ValueOf(2))
    /\ adm[2].writes = 1
    /\ adm[3].task.kind = "fn" /\ adm[3].future.st = "pending"
    /\ running = 1 /\ queue = <<>>

\* The admissions whose result promise has been written.
Written(a) == {j \in 1..Len(a) : a[j].writes > 0}
\* The admissions of the queue that a step starts.
Dequeued == {j \in Admissions : Member(queue, j) /\ adm'[j].started}
\* The step is the continuation of the execute() at the head of the
\* microtask queue: the operation behind its task has settled.
ContinuationStep ==
    /\ mq # <<>> /\ Head(mq).k = "cont"
    /\ adm'[Head(mq).i].writes > adm[Head(mq).i].writes
\* A task that neither throws nor admits a child when it is started.
PlainTask(t) == t.kind = "promise" \/ (~t.throws /\ t.child = "none")

\* C15: what the pool does when a running task settles.  The outcome is
\* written to the admission's result promise; the counter is decremented;
\* then, if the queue is not empty and running < limit, the head of the queue
\* is removed and started, and otherwise nothing is started.  The head is
\* started after the write and the decrement: the tasks in flight at a start
\* never exceed the limit.  A release dequeues at most one admission: a step
\* starts no more queued admissions than it writes results, in queue order,
\* and a step that writes none (an acquire call, the settling of an
\* operation) starts none of them.
C15_ReleaseOrder ==
    [][/\ ContinuationStep =>
            LET i == Head(mq).i
            IN  /\ adm'[i].future = [st |-> adm[i].op.st, val |-> adm[i].op.val]
                /\ adm'[i].writes = 1
                /\ IF queue # <<>> /\ LessThanLimit(running - 1, limit)
                   THEN /\ adm'[Head(queue)].started
                        /\ startOrder'[Len(startOrder) + 1] = Head(queue)
                        /\ PlainTask(adm[Head(queue)].task) =>
                              /\ running' = running
                              /\ queue' = Tail(queue)
                              /\ startOrder' = Append(startOrder, Head(queue))
                   ELSE /\ running' = running - 1
                        /\ queue' = queue
                        /\ startOrder' = startOrder
       /\ Cardinality(Dequeued) <= Cardinality(Written(adm')) - Cardinality(Written(adm))
       /\ QueueAdvanced(queue, queue', Cardinality(Dequeued))
       /\ \A k \in 1..Cardinality(Dequeued) : adm'[queue[k]].started
       /\ Written(adm') = Written(adm) =>
             /\ Dequeued = {}
             /\ running' >= running
       /\ FiniteLimit' => peak' <= limit'.n
      ]_vars

\* Under limit 1 three tasks were admitted; the first has settled and its
\* release has started the second, and only the second: the third is still
\* queued.
C15_Witness ==
    /\ mode = "pool" /\ limit = Finite(1)
    /\ Len(adm) = 3
    /\ startOrder = <<1, 2>>
    /\ adm[1].writes = 1
    /\ adm[2].started /\ adm[2].future.st = "pending"
    /\ queue = <<3>>
    /\ running = 1 /\ peak = 1

\* Every admitted task has been started and every result promise is settled.
AllSettledNow == \A i \in Admissions : adm[i].started /\ IsSettled(adm[i].future)

\* C16: under a limit L >= 1, when every started task settles in the end,
\* from every state a state is reached in which every admission made so far
\* has been started and its result promise is settled, so each admitted task
\* is started and each result settles in the end, and none stays queued for
\* ever; and whenever all admitted tasks have settled, the queue is empty and
\* the counter is 0.
C16_EveryAdmissionSettles ==
    /\ FiniteLimit ~> AllSettledNow
    /\ [](FiniteLimit /\ AllSettledNow => queue = <<>> /\ running = 0)

\* Under limit 1 the first task admitted a child, which had to queue, and a
\* third task was admitted; all three have been started and have settled,
\* the queue is empty and the counter is 0.
C16_Witness ==
    /\ mode = "pool" /\ limit = Finite(1)
    /\ Len(adm) = 3
    /\ adm[1].task.child = "return"
    /\ startOrder = <<1, 2, 3>>
    /\ AllSettledNow
    /\ queue = <<>> /\ running = 0

\* C17: with a limit of 0 or less the pool is constructed like any other,
\* and from then on no task is invoked and no result promise settles: every
\* admission is queued and stays queued, in admission order, whatever the
\* operations behind the inputs do, and the result of all / allSettled over
\* a non-empty input stays pending.
C17_NonPositiveLimitHangs ==
    (mode \in {"all", "allSettled"} /\ ~limit.inf /\ limit.n <= 0) =>
        /\ startOrder = <<>>
        /\ \A i \in Admissions :
              ~adm[i].started /\ adm[i].writes = 0 /\ adm[i].future = Pending
        /\ queue = [k \in 1..Len(adm) |-> k]
        /\ running = 0 /\ peak = 0
        /\ mq = <<>> /\ join.seen = <<>>
        /\ adm # <<>> => out = PendingOut

\* all was called with concurrency 0 over three inputs, among them a promise
\* that has fulfilled and one that has rejected: all three are queued and
\* the combined result is pending.
C17_Witness ==
    /\ mode = "all" /\ limit = Finite(0)
    /\ callOptions = Concurrency(Finite(0))
    /\ Len(adm) = 3
    /\ adm[1].op.st = "fulfilled"
    /\ adm[2].op.st = "rejected"
    /\ adm[3].task.kind = "fn"
    /\ queue = <<1, 2, 3>>
    /\ out = PendingOut

\* C18: all does not cancel.  Once the combined result is rejected, it stays
\* as it is; a task that is running stays started, and when its operation
\* settles its own outcome is written; a release still starts the head of the
\* queue when running < limit, so the admissions leave the queue in order and
\* are started in that order, within the limit; and none is left queued under
\* a free slot.
C18_FailFastDoesNotCancel ==
    [][(mode = "all" /\ out.st = "rejected") =>
          /\ out' = out
          /\ \A j \in Admissions : adm[j].started =>
                /\ adm'[j].started
                /\ \/ adm'[j].future = adm[j].future
                   \/ /\ adm[j].future.st = "pending"
                      /\ IsSettled(adm[j].op)
                      /\ adm'[j].future = [st |-> adm[j].op.st, val |-> adm[j].op.val]
          /\ \E d \in 0..Len(queue) :
                /\ queue' = SubSeq(queue, d + 1, Len(queue))
                /\ startOrder' = startOrder \o SubSeq(queue, 1, d)
                /\ \A k \in 1..d : adm'[queue[k]].started
          /\ ContinuationStep =>
                IF queue # <<>> /\ LessThanLimit(running - 1, limit)
                THEN adm'[Head(queue)].started
                ELSE queue' = queue /\ running' = running - 1
          /\ FiniteLimit => running' <= limit.n /\ peak' <= limit.n
          /\ queue' # <<>> => ~LessThanLimit(running', limit)
      ]_vars

\* all under limit 1: the first task failed and the combined result is
\* rejected with its error; the second and the third task, queued at the
\* time, were started one after the other, and the third has fulfilled.
C18_Witness ==
    /\ mode = "all" /\ limit = Finite(1)
    /\ Len(adm) = 3
    /\ out = RejectedOut(ValueOf(1))
    /\ startOrder = <<1, 2, 3>>
    /\ adm[2].task.kind = "fn" /\ adm[2].writes = 1
    /\ adm[3].task.kind = "fn" /\ adm[3].future = Settled(TRUE, ValueOf(3))
    /\ running = 0 /\ queue = <<>>

\* C19: no slot is idle while work waits.  Under an integer limit L >= 1, in
\* every state between two events a non-empty queue means running = L, and no
\* acquire call, that of a task body started from acquire or from release
\* included, has ever begun with an admission queued and the counter not at
\* L; so the admissions not yet started are those of the queue, every
\* started admission was admitted before every queued one, and while none of
\* N >= L admitted tasks has settled exactly L are running, the first L.
C19_NoIdleSlot ==
    FiniteLimit =>
        /\ queue # <<>> => running = limit.n
        /\ ~idleSlot
        /\ \A i \in Admissions : ~adm[i].started <=> InQueue(i)
        /\ \A i, j \in Admissions : (InQueue(i) /\ adm[j].started) => j < i
        /\ (Len(adm) >= limit.n /\ \A i \in Admissions : adm[i].writes = 0) =>
              /\ running = limit.n
              /\ startOrder = [k \in 1..limit.n |-> k]

\* Under limit 2 a task was started whose body admitted a child, which took
\* the second slot; a third task is queued, and both slots are taken.
C19_Witness ==
    /\ mode = "pool" /\ limit = Finite(2)
    /\ Len(adm) = 3
    /\ adm[1].task.child = "return"
    /\ startOrder = <<1, 2>>
    /\ \A i \in Admissions : adm[i].writes = 0
    /\ queue = <<3>>
    /\ running = 2
    /\ ~idleSlot

\* The admissions whose task has been started and whose release has not run:
\* the release comes in the same run as the write of the result.
Unreleased == {i \in Admissions : adm[i].started /\ adm[i].writes = 0}

\* C20: the counter is exact.  In every state running is the number of
\* admissions started and not yet released; no admission is released before
\* it is started or more than once, whether its task fulfils, rejects or
\* throws; and the counter is never negative.
C20_CounterExact ==
    /\ running = Cardinality(Unreleased)
    /\ running >= 0
    /\ \A i \in Admissions :
          /\ adm[i].writes <= 1
          /\ adm[i].writes = 1 => adm[i].started /\ IsSettled(adm[i].op)
    /\ Len(startOrder) = Cardinality({i \in Admissions : adm[i].started})
    /\ running = Len(startOrder) - Cardinality(Written(adm))

\* Under limit 2 three tasks ran: one fulfilled, one rejected and one threw
\* when it was invoked; each was released once and the counter is back at 0.
C20_Witness ==
    /\ mode = "pool" /\ limit = Finite(2)
    /\ Len(adm) = 3
    /\ adm[1].future.st = "fulfilled"
    /\ adm[2].future.st = "rejected" /\ ~adm[2].task.throws
    /\ adm[3].future.st = "rejected" /\ adm[3].task.throws
    /\ \A i \in Admissions : adm[i].writes = 1
    /\ peak = 2
    /\ running = 0 /\ queue = <<>>

====
